---- MODULE Spec2Model ----
(***************************************************************************)
(* Model of the i3pyblocks block-aggregation runtime                       *)
(* (src/i3pyblocks/core.py): Module / PollingModule / Runner.              *)
(*                                                                         *)
(* Encoding conventions                                                    *)
(*  - An Optional[...] value is a sequence: <<>> is None, <<v>> is v.      *)
(*  - A text is a sequence of string tokens: <<>> is "", an f-string is    *)
(*    the sequence of its literal and substituted parts.                   *)
(*  - The Python call stack above the event loop / main coroutine is       *)
(*    `stack`: the write_result activations in progress.  A handler        *)
(*    installed with signal.signal runs between two bytecodes of whatever  *)
(*    the main thread executes, so it nests on top of the stack and runs   *)
(*    to completion before the interrupted code resumes.                   *)
(*  - asyncio tasks are cooperative: a task step runs from one await to    *)
(*    the next and no other task step interleaves (stack = <<>> guards).   *)
(*  - Timers are abstracted: a sleeping task may wake at any time.         *)
(***************************************************************************)
EXTENDS Integers, Sequences, FiniteSets, TLC

VARIABLES
    phase,      \* position of the main coroutine: "setup" | "running" | "stopped"
    modules,    \* Runner.modules: insertion-ordered dict, a sequence of [key, mod]
    tasks,      \* Runner.tasks: list of task ids
    pc,         \* position / status of every task
    _state,     \* Module._state of every module object
    handlers,   \* OS signal table set by signal.signal: signum -> <<>> or <<mod>>
    stack,      \* write_result activations in progress (innermost last)
    out,        \* sys.stdout: the lines written and flushed so far
    stdin,      \* sys.stdin as the reader's StreamReader sees it: [data, pos]
    last,       \* the operation performed by the latest step (history)
    sched,      \* the asyncio event loop: [ready, timers] (see the timed runner)
    x11,        \* the caffeine block and its X display (tests/blocks/test_x11.py)
    pulse,      \* the audio volume block and its server (modules/pulsectl.py)
    aio         \* the aio_i3status runtime (src/aio_i3status/core.py)

vars == <<phase, modules, tasks, pc, _state, handlers, stack, out, stdin, last,
          sched, x11, pulse, aio>>

\* The state outside the i3pyblocks runner proper.
ext == <<sched, x11, pulse, aio>>

(***************************************************************************)
(* Bounds                                                                  *)
(***************************************************************************)
MaxOut == 4     \* lines the output stream may hold (header lines included)
MaxDepth == 2   \* nested write_result activations (1 task level + signals)
MaxEvents == 2  \* click events of a given input stream
MaxOverrides == 1   \* style arguments passed in one update call
MaxSinks == 2   \* sinks of the audio server, and the largest sink index
MaxClicks == 3  \* clicks the display records before its call log is reset

None == <<>>
Some(v) == <<v>>

\* Python truthiness of an Optional[str]: None and "" are falsy.
Truthy(o) == o # None /\ o[1] # ""

(***************************************************************************)
(* The module objects handed to register_module, by constructor arguments. *)
(* m1 and m3 are distinct objects with the same (name, instance).          *)
(* kwargs holds the style arguments that were passed explicitly.           *)
(* Mods are the objects the runner specification registers; the other      *)
(* objects of AllMods appear in the specifications of the registry and of  *)
(* Module.update only.                                                     *)
(***************************************************************************)
Mods == {"m1", "m2", "m3"}
AllMods == Mods \cup {"m4", "m5", "m6", "m7", "m8"}

NoKwargs == <<>>

CtorArgs ==
    [m1 |-> [cls |-> "DiskModule", name |-> None, instance |-> Some("home"),
             kwargs |-> NoKwargs],
     m2 |-> [cls |-> "DiskModule", name |-> None, instance |-> None,
             kwargs |-> NoKwargs],
     m3 |-> [cls |-> "Module", name |-> Some("DiskModule"), instance |-> Some("home"),
             kwargs |-> NoKwargs],
     m4 |-> [cls |-> "LocalTimeModule", name |-> Some(""), instance |-> Some("default"),
             kwargs |-> [color |-> Some("#ffffff"), background |-> Some("#000000"),
                         border |-> Some("#111111"), border_top |-> Some("#222222"),
                         border_right |-> Some("#333333"), border_bottom |-> Some("#444444"),
                         border_left |-> Some("#555555"), min_width |-> Some(50),
                         align |-> Some("center"), urgent |-> Some(TRUE),
                         separator |-> Some(FALSE), separator_block_width |-> Some(9),
                         markup |-> Some("pango")]],
     m5 |-> [cls |-> "DiskModule", name |-> None, instance |-> Some(""),
             kwargs |-> [urgent |-> None]],
     m6 |-> [cls |-> "DiskModule", name |-> None, instance |-> Some("none"),
             kwargs |-> NoKwargs],
     m7 |-> [cls |-> "Module", name |-> Some("DiskModule"), instance |-> Some("home__x"),
             kwargs |-> NoKwargs],
     m8 |-> [cls |-> "Module", name |-> Some("DiskModule__home"), instance |-> Some("x"),
             kwargs |-> NoKwargs],
     caffeine |-> [cls |-> "CaffeineBlock", name |-> None, instance |-> None,
                   kwargs |-> NoKwargs]]

\* Module.__init__: name falls back to the class name.
ModuleName(m) ==
    IF Truthy(CtorArgs[m].name) THEN CtorArgs[m].name[1] ELSE CtorArgs[m].cls

ModuleInstance(m) == CtorArgs[m].instance

\* The style fields, in the order Module.update puts them into the dict.
StyleFields ==
    <<"color", "background", "border", "border_top", "border_right", "border_left",
      "border_bottom", "min_width", "align", "urgent", "separator",
      "separator_block_width", "markup">>

StyleSet == {StyleFields[i] : i \in 1..Len(StyleFields)}

\* The defaults in the signature of Module.__init__.
SignatureDefault(f) ==
    CASE f = "urgent" -> Some(FALSE)
      [] f = "separator" -> Some(TRUE)
      [] f = "markup" -> Some("none")
      [] OTHER -> None

\* Module.__init__: self._<f>, the value given at construction.
Attr(m, f) ==
    IF f \in DOMAIN CtorArgs[m].kwargs THEN CtorArgs[m].kwargs[f] ELSE SignatureDefault(f)

\* Module.__init__: the construction default of urgent.
DefaultUrgent(m) == Attr(m, "urgent")

Signums == {"SIGUSR1"}
SignalChoices == {<<>>, <<"SIGUSR1">>}

Values == {"v1"}            \* texts a fetch step may produce
Errors == {"boom"}          \* error descriptions a fetch step may raise with

WRITE_TASK == "write_task"
CLICK_TASK == "click_task"
TaskIds == {WRITE_TASK, CLICK_TASK} \cup AllMods

(***************************************************************************)
(* Module                                                                  *)
(***************************************************************************)
\* Mutant: the construction value wins over the value passed.
_get_value_or_default_swapped(value, default) ==
    IF default # None THEN default ELSE value

\* Module._get_value_or_default
_get_value_or_default(value, default) ==
    IF value # None THEN value ELSE default

\* The keys of the _state dict, in the order Module.update inserts them.
FieldOrder == <<"name", "instance", "full_text", "short_text">> \o StyleFields

FieldSet == {FieldOrder[i] : i \in 1..Len(FieldOrder)}

\* The arguments of one update call: no style argument passed.
NoStyle == [f \in StyleSet |-> None]

UpdateArgs(full_text, short_text, style) ==
    [full_text |-> full_text, short_text |-> short_text, style |-> style]

\* Module.update: builds a whole new _state dict and assigns it.
Module_update(m, a) ==
    [k \in FieldSet |->
        CASE k = "name" -> Some(ModuleName(m))
          [] k = "instance" -> ModuleInstance(m)
          [] k = "full_text" -> Some(a.full_text)
          [] k = "short_text" -> a.short_text
          [] OTHER -> _get_value_or_default(a.style[k], Attr(m, k))]

\* Mutant: the text passed is not stored.
update_drops_text(m, full_text, urgent) ==
    Module_update(m, UpdateArgs(<<>>, None, [NoStyle EXCEPT !["urgent"] = urgent]))

\* Module.update(full_text, urgent=...), the two forms PollingModule uses.
update(m, full_text, urgent) ==
    Module_update(m, UpdateArgs(full_text, None, [NoStyle EXCEPT !["urgent"] = urgent]))

\* Python truthiness of the value v of key k.
TruthyValue(k, v) ==
    CASE k \in {"urgent", "separator"} -> v
      [] k \in {"min_width", "separator_block_width"} -> v # 0
      [] k \in {"full_text", "short_text"} -> v # <<>>
      [] OTHER -> v # ""

RECURSIVE DictItemsTruthy(_, _)
DictItemsTruthy(s, i) ==
    IF i > Len(FieldOrder) THEN <<>>
    ELSE (IF s[FieldOrder[i]] # None /\ TruthyValue(FieldOrder[i], s[FieldOrder[i]][1])
            THEN << <<FieldOrder[i], s[FieldOrder[i]][1]>> >>
            ELSE <<>>) \o DictItemsTruthy(s, i + 1)

\* Mutant: the filter of result is `if v` instead of `if v is not None`.
result_truthy(s) == DictItemsTruthy(s, 1)

RECURSIVE DictItems(_, _)
DictItems(s, i) ==
    IF i > Len(FieldOrder) THEN <<>>
    ELSE (IF s[FieldOrder[i]] # None
            THEN << <<FieldOrder[i], s[FieldOrder[i]][1]>> >>
            ELSE <<>>) \o DictItems(s, i + 1)

\* Module.result: the items of _state whose value is not None, in dict order.
result(s) == DictItems(s, 1)

\* json.dumps of a result dict: the object's members in order.
json_dumps(r) == [kind |-> "object", members |-> r]

\* The f-string of PollingModule.loop's except branch.
ExceptionText(m, e) == <<"Exception in ", ModuleName(m), ": ", e>>

(***************************************************************************)
(* Runner helpers                                                          *)
(***************************************************************************)
\* f"{name}__{instance or 'none'}"
KeyOf(name, instance) ==
    name \o "__" \o (IF Truthy(instance) THEN instance[1] ELSE "none")

\* Mutant: the key is built from the instance as it is, f"{name}__{instance}".
_get_module_key_plain(m) ==
    ModuleName(m) \o "__" \o (IF ModuleInstance(m) = None THEN "None" ELSE ModuleInstance(m)[1])

\* Runner._get_module_key
_get_module_key(m) == KeyOf(ModuleName(m), ModuleInstance(m))

Keys == {modules[i].key : i \in 1..Len(modules)}

\* Mutant: the lookup goes by name alone, the first block of that name.
_get_module_from_key_by_name(name, instance) ==
    LET hits == {i \in 1..Len(modules) : name = Some(ModuleName(modules[i].mod))}
    IN IF hits = {} THEN None
       ELSE Some(modules[CHOOSE i \in hits : \A j \in hits : i <= j].mod)

\* Runner._get_module_from_key: dict.get, None when the key is absent.
\* str(None) is "None" inside the f-string.
_get_module_from_key(name, instance) ==
    LET k == KeyOf(IF name = None THEN "None" ELSE name[1], instance)
        hits == {i \in 1..Len(modules) : modules[i].key = k}
    IN IF hits = {} THEN None ELSE Some(modules[CHOOSE i \in hits : TRUE].mod)

HeaderLine == [kind |-> "header", site |-> "start", blocks |-> <<>>]
OpenLine == [kind |-> "open", site |-> "start", blocks |-> <<>>]

\* The record of one step: the operation, the modules whose fetch step or
\* handler it invoked, the exception it raised (None when none) and the input
\* it consumed (a click event, a signal number, the timer; None when none).
Op(op, mods, exc, ev) == [op |-> op, mods |-> mods, exc |-> exc, ev |-> ev]

\* Room for one more write_result activation to emit its line.
Room == Len(out) + Len(stack) < MaxOut

(***************************************************************************)
(* Init: the modules are constructed (Module.__init__ ends with update())  *)
(* and Runner.__init__ has created the writer and the reader task.         *)
(***************************************************************************)
\* No bytes given in advance.
NoStream == [data |-> <<>>, pos |-> 0]

\* The parts of the state a specification does not use stay as they start.
NoSched == [ready |-> <<>>, timers |-> <<>>]
NoX11 == <<>>
NoPulse == <<>>
NoAio == <<>>

InitRunner ==
    /\ phase = "setup"
    /\ modules = <<>>
    /\ tasks = <<WRITE_TASK, CLICK_TASK>>
    /\ pc = [t \in TaskIds |->
                IF t = WRITE_TASK THEN "sleep"
                ELSE IF t = CLICK_TASK THEN "connect" ELSE "none"]
    /\ _state = [m \in AllMods |-> update(m, <<>>, None)]
    /\ handlers = [s \in Signums |-> None]
    /\ stack = <<>>
    /\ out = <<>>

InitExt == sched = NoSched /\ x11 = NoX11 /\ pulse = NoPulse /\ aio = NoAio

Init ==
    /\ InitRunner
    /\ stdin = NoStream
    /\ last = Op("__init__", <<>>, None, None)
    /\ InitExt

(***************************************************************************)
(* Inputs                                                                  *)
(***************************************************************************)
\* What one invocation of a block's fetch step (PollingModule.run) does:
\* it computes a text and calls update, or it raises.
Outcomes ==
    {[ok |-> TRUE, v |-> v] : v \in Values} \cup {[ok |-> FALSE, v |-> e] : e \in Errors}

\* The raw bytes of one click event: unparseable, or an object whose name and
\* instance members may be absent.
EventNames == {None, Some("DiskModule")}
EventInstances == {None, Some("home"), Some("var")}
Events ==
    {[ok |-> FALSE, name |-> None, instance |-> None]}
    \cup {[ok |-> TRUE, name |-> n, instance |-> i] : n \in EventNames, i \in EventInstances}

\* Mutant: the fetched text is stored into the dict in place, the other keys
\* keep what the last update left.
run_in_place(m, o) == [_state EXCEPT ![m]["full_text"] = Some(<<o.v>>)]

\* PollingModule.run when it succeeds: one update with the fetched text.
run(m, o) == [_state EXCEPT ![m] = update(m, <<o.v>>, None)]

\* Mutant: a click handler that does not refresh.
click_handler_pass(m, o) == _state

\* PollingModule.click_handler: self.run().
click_handler(m, o) == run(m, o)

\* Mutant: a signal handler that does not refresh.
signal_handler_pass(m, o) == _state

\* PollingModule.signal_handler: self.run().
signal_handler(m, o) == run(m, o)

(***************************************************************************)
(* Runner.register_signal / Runner.register_module                         *)
(***************************************************************************)
\* Mutant: an id that already has a dispatcher keeps it.
register_signal_keep_first(m, signums) ==
    [s \in Signums |->
        IF handlers[s] = None /\ \E i \in 1..Len(signums) : signums[i] = s
        THEN Some(m) ELSE handlers[s]]

\* Runner.register_signal: signal.signal(signum, _handler) for every id given;
\* the closure _handler holds the module.
register_signal(m, signums) ==
    [s \in Signums |->
        IF \E i \in 1..Len(signums) : signums[i] = s THEN Some(m) ELSE handlers[s]]

\* Mutant: the key check is dropped, self.modules[module_key] = module always.
register_module_overwrite(m, signals) ==
    /\ phase = "setup"
    /\ stack = <<>>
    /\ LET module_key == _get_module_key(m) IN
       /\ modules' = IF module_key \in Keys
                        THEN [i \in 1..Len(modules) |->
                                IF modules[i].key = module_key
                                THEN [key |-> module_key, mod |-> m] ELSE modules[i]]
                        ELSE Append(modules, [key |-> module_key, mod |-> m])
       /\ tasks' = Append(tasks, m)
       /\ pc' = [pc EXCEPT ![m] = "loop"]
       /\ handlers' = register_signal(m, signals)
       /\ last' = Op("register_module", <<m>>, None, Some([signals |-> signals]))
    /\ UNCHANGED <<phase, _state, stack, out>>

\* Mutant: the task is created and the dispatchers are installed before the
\* key is checked.
register_module_check_last(m, signals) ==
    /\ phase = "setup"
    /\ stack = <<>>
    /\ tasks' = Append(tasks, m)
    /\ pc' = [pc EXCEPT ![m] = "loop"]
    /\ handlers' = register_signal(m, signals)
    /\ LET module_key == _get_module_key(m) IN
       IF module_key \notin Keys
       THEN /\ modules' = Append(modules, [key |-> module_key, mod |-> m])
            /\ last' = Op("register_module", <<m>>, None, Some([signals |-> signals]))
       ELSE /\ last' = Op("register_module", <<m>>, Some("ValueError"),
                          Some([signals |-> signals]))
            /\ UNCHANGED modules
    /\ UNCHANGED <<phase, _state, stack, out>>

register_module(m, signals) ==
    /\ phase = "setup"
    /\ stack = <<>>
    /\ LET module_key == _get_module_key(m) IN
       IF module_key \notin Keys
       THEN /\ modules' = Append(modules, [key |-> module_key, mod |-> m])
            /\ tasks' = Append(tasks, m)
            /\ pc' = [pc EXCEPT ![m] = "loop"]
            /\ handlers' = register_signal(m, signals)
            /\ last' = Op("register_module", <<m>>, None, Some([signals |-> signals]))
       ELSE /\ last' = Op("register_module", <<m>>, Some("ValueError"), Some([signals |-> signals]))
            /\ UNCHANGED <<modules, tasks, pc, handlers>>
    /\ UNCHANGED <<phase, _state, stack, out>>

(***************************************************************************)
(* Runner.start and the end of asyncio.wait                                *)
(***************************************************************************)
start ==
    /\ phase = "setup"
    /\ stack = <<>>
    /\ Len(out) + 2 <= MaxOut
    /\ out' = out \o <<HeaderLine, OpenLine>>
    /\ phase' = "running"
    /\ last' = Op("start", <<>>, None, None)
    /\ UNCHANGED <<modules, tasks, pc, _state, handlers, stack>>

Finished(t) == pc[t] \in {"done", "failed", "cancelled"}

\* Mutant: asyncio.wait with return_when=FIRST_COMPLETED.
WaitReturns_first_completed(elapsed) ==
    elapsed \/ \E i \in 1..Len(tasks) : pc[tasks[i]] \in {"done", "failed", "cancelled"}

\* asyncio.wait(tasks, timeout): returns when the timeout has elapsed or every
\* task is complete (return_when defaults to ALL_COMPLETED).
WaitReturns(elapsed) ==
    elapsed \/ \A i \in 1..Len(tasks) : Finished(tasks[i])

\* Mutant: only the two tasks created by Runner.__init__ are cancelled.
_clean_up_own_tasks ==
    [t \in TaskIds |->
        IF t \in {WRITE_TASK, CLICK_TASK} /\ ~Finished(t) THEN "cancelled" ELSE pc[t]]

\* Runner._clean_up: cancel() every task; a finished task is not affected.
_clean_up ==
    [t \in TaskIds |->
        IF (\E i \in 1..Len(tasks) : tasks[i] = t) /\ ~Finished(t)
        THEN "cancelled" ELSE pc[t]]

start_return(elapsed) ==
    /\ phase = "running"
    /\ stack = <<>>
    /\ WaitReturns(elapsed)
    /\ pc' = _clean_up
    /\ phase' = "stopped"
    /\ last' = Op("_clean_up", <<>>, None, Some([elapsed |-> elapsed]))
    /\ UNCHANGED <<modules, tasks, _state, handlers, stack, out>>

(***************************************************************************)
(* Runner.write_result, one activation = one frame of `stack`              *)
(***************************************************************************)
Frame(site, by) == [site |-> site, by |-> by, i |-> 1, output |-> <<>>]
Top == stack[Len(stack)]
Pop == SubSeq(stack, 1, Len(stack) - 1)

\* Mutant: the registry is walked most recent registration first.
ModuleValues_reversed == [i \in 1..Len(modules) |-> modules[Len(modules) + 1 - i].mod]

\* self.modules.values(): the modules in dict (insertion) order.
ModuleValues == [i \in 1..Len(modules) |-> modules[i].mod]

\* One iteration of the for loop: output.append(json.dumps(module.result())).
write_result_collect ==
    /\ stack # <<>>
    /\ Top.i <= Len(ModuleValues)
    /\ stack' = [stack EXCEPT ![Len(stack)] =
                    [@ EXCEPT !.i = @ + 1,
                              !.output = Append(@, json_dumps(result(_state[ModuleValues[Top.i]])))]]
    /\ last' = Op("write_result", <<>>, None, None)
    /\ UNCHANGED <<phase, modules, tasks, pc, _state, handlers, out>>

\* sys.stdout.write of the joined line and flush; the activation returns.  The
\* reader, when it made the call, goes on to await the delimiter.
write_result_flush ==
    /\ stack # <<>>
    /\ Top.i > Len(ModuleValues)
    /\ out' = Append(out, [kind |-> "line", site |-> Top.site, blocks |-> Top.output])
    /\ stack' = Pop
    /\ pc' = IF Top.site = "click" THEN [pc EXCEPT ![CLICK_TASK] = "delim"] ELSE pc
    /\ last' = Op("flush", <<>>, None, None)
    /\ UNCHANGED <<phase, modules, tasks, _state, handlers>>

\* Runner.write_results: the writer task wakes and calls write_result.
write_results ==
    /\ phase = "running"
    /\ pc[WRITE_TASK] = "sleep"
    /\ stack = <<>>
    /\ Room
    /\ stack' = <<Frame("tick", None)>>
    /\ last' = Op("write_results", <<>>, None, None)
    /\ UNCHANGED <<phase, modules, tasks, pc, _state, handlers, out>>

(***************************************************************************)
(* PollingModule.loop                                                      *)
(***************************************************************************)
\* Mutant: the try/except sits inside the while loop, so the loop goes on.
loop_retry(m, o) ==
    /\ phase = "running"
    /\ pc[m] = "loop"
    /\ stack = <<>>
    /\ _state' = IF o.ok THEN [_state EXCEPT ![m] = update(m, <<o.v>>, None)]
                 ELSE [_state EXCEPT ![m] = update(m, ExceptionText(m, o.v), Some(TRUE))]
    /\ last' = Op("loop", <<m>>, IF o.ok THEN None ELSE Some(o.v), None)
    /\ UNCHANGED <<phase, modules, tasks, pc, handlers, stack, out>>

loop(m, o) ==
    /\ phase = "running"
    /\ pc[m] = "loop"
    /\ stack = <<>>
    /\ IF o.ok
       THEN /\ _state' = run(m, o)
            /\ pc' = pc
            /\ last' = Op("loop", <<m>>, None, None)
       ELSE /\ _state' = [_state EXCEPT ![m] = update(m, ExceptionText(m, o.v), Some(TRUE))]
            /\ pc' = [pc EXCEPT ![m] = "done"]
            /\ last' = Op("loop", <<m>>, Some(o.v), None)
    /\ UNCHANGED <<phase, modules, tasks, handlers, stack, out>>

(***************************************************************************)
(* The signal dispatcher installed by Runner.register_signal               *)
(***************************************************************************)
\* Mutant: no try/except in the dispatcher, the exception is raised in the main
\* thread at the point the signal interrupted and ends the program.
_handler_uncaught(s, o) ==
    /\ phase \in {"setup", "running"}
    /\ handlers[s] # None
    /\ Len(stack) < MaxDepth
    /\ Room
    /\ LET m == handlers[s][1] IN
       IF o.ok
       THEN /\ _state' = signal_handler(m, o)
            /\ stack' = Append(stack, Frame("signal", handlers[s]))
            /\ last' = Op("_handler", <<m>>, None, Some([signum |-> s]))
            /\ UNCHANGED <<phase, pc>>
       ELSE /\ last' = Op("_handler", <<m>>, Some(o.v), Some([signum |-> s]))
            /\ phase' = "stopped"
            /\ pc' = [t \in TaskIds |-> IF pc[t] = "none" THEN "none" ELSE "failed"]
            /\ stack' = <<>>
            /\ UNCHANGED _state
    /\ UNCHANGED <<modules, tasks, handlers, out>>

_handler(s, o) ==
    /\ phase \in {"setup", "running"}
    /\ handlers[s] # None
    /\ Len(stack) < MaxDepth
    /\ Room
    /\ LET m == handlers[s][1] IN
       IF o.ok
       THEN /\ _state' = signal_handler(m, o)
            /\ stack' = Append(stack, Frame("signal", handlers[s]))
            /\ last' = Op("_handler", <<m>>, None, Some([signum |-> s]))
       ELSE /\ last' = Op("_handler", <<m>>, Some(o.v), Some([signum |-> s]))
            /\ UNCHANGED <<_state, stack>>
    /\ UNCHANGED <<phase, modules, tasks, pc, handlers, out>>

(***************************************************************************)
(* Runner.click_events / Runner.click_event                                *)
(***************************************************************************)
\* The reader connects the pipe and reads the opening line (outside the try):
\* the line arrives, or the stream ends and IncompleteReadError leaves the task.
click_connect(eof) ==
    /\ phase = "running"
    /\ pc[CLICK_TASK] = "connect"
    /\ stack = <<>>
    /\ pc' = [pc EXCEPT ![CLICK_TASK] = IF eof THEN "failed" ELSE "read"]
    /\ last' = Op("click_connect", <<>>, IF eof THEN Some("IncompleteReadError") ELSE None, None)
    /\ UNCHANGED <<phase, modules, tasks, _state, handlers, stack, out>>

\* Mutant: no try/except around the reader's loop, the exception leaves the task.
click_event_uncaught(ev, o) ==
    /\ phase = "running"
    /\ pc[CLICK_TASK] = "read"
    /\ stack = <<>>
    /\ Room
    /\ LET module == _get_module_from_key(ev.name, ev.instance)
           exc == IF ~ev.ok THEN Some("JSONDecodeError")
                  ELSE IF module = None THEN Some("AttributeError")
                  ELSE IF o.ok THEN None ELSE Some(o.v)
       IN /\ last' = Op("click_event", IF ev.ok THEN module ELSE <<>>, exc, Some(ev))
          /\ IF exc = None
             THEN /\ _state' = [_state EXCEPT ![module[1]] = update(module[1], <<o.v>>, None)]
                  /\ stack' = <<[site |-> "click", by |-> module, i |-> 1, output |-> <<>>]>>
                  /\ pc' = [pc EXCEPT ![CLICK_TASK] = "write"]
             ELSE /\ pc' = [pc EXCEPT ![CLICK_TASK] = "failed"]
                  /\ UNCHANGED <<_state, stack>>
    /\ UNCHANGED <<phase, modules, tasks, handlers, out>>

\* One pass of the reader's loop up to write_result: parse, look up, dispatch.
click_event(ev, o) ==
    /\ phase = "running"
    /\ pc[CLICK_TASK] = "read"
    /\ stack = <<>>
    /\ Room
    /\ LET module == _get_module_from_key(ev.name, ev.instance) IN
       IF ~ev.ok
       THEN /\ last' = Op("click_event", <<>>, Some("JSONDecodeError"), Some(ev))
            /\ pc' = [pc EXCEPT ![CLICK_TASK] = "done"]
            /\ UNCHANGED <<_state, stack>>
       ELSE IF module = None
       THEN /\ last' = Op("click_event", <<>>, Some("AttributeError"), Some(ev))
            /\ pc' = [pc EXCEPT ![CLICK_TASK] = "done"]
            /\ UNCHANGED <<_state, stack>>
       ELSE IF o.ok
       THEN /\ _state' = click_handler(module[1], o)
            /\ stack' = <<Frame("click", module)>>
            /\ pc' = [pc EXCEPT ![CLICK_TASK] = "write"]
            /\ last' = Op("click_event", module, None, Some(ev))
       ELSE /\ last' = Op("click_event", module, Some(o.v), Some(ev))
            /\ pc' = [pc EXCEPT ![CLICK_TASK] = "done"]
            /\ UNCHANGED <<_state, stack>>
    /\ UNCHANGED <<phase, modules, tasks, handlers, out>>

\* await reader.readuntil(b","): the delimiter arrives, or the stream ends
\* (IncompleteReadError, caught by the reader's except).
click_delim(eof) ==
    /\ phase = "running"
    /\ pc[CLICK_TASK] = "delim"
    /\ stack = <<>>
    /\ pc' = [pc EXCEPT ![CLICK_TASK] = IF eof THEN "done" ELSE "read"]
    /\ last' = Op("click_delim", <<>>, IF eof THEN Some("IncompleteReadError") ELSE None, None)
    /\ UNCHANGED <<phase, modules, tasks, _state, handlers, stack, out>>

\* The input stream is left open: each read of the reader yields any bytes.
Next ==
    \/ \E m \in Mods, sg \in SignalChoices : register_module(m, sg) /\ UNCHANGED <<stdin, ext>>
    \/ start /\ UNCHANGED <<stdin, ext>>
    \/ \E elapsed \in BOOLEAN : start_return(elapsed) /\ UNCHANGED <<stdin, ext>>
    \/ write_results /\ UNCHANGED <<stdin, ext>>
    \/ write_result_collect /\ UNCHANGED <<stdin, ext>>
    \/ write_result_flush /\ UNCHANGED <<stdin, ext>>
    \/ \E m \in Mods, o \in Outcomes : loop(m, o) /\ UNCHANGED <<stdin, ext>>
    \/ \E s \in Signums, o \in Outcomes : _handler(s, o) /\ UNCHANGED <<stdin, ext>>
    \/ \E eof \in BOOLEAN : click_connect(eof) /\ UNCHANGED <<stdin, ext>>
    \/ \E ev \in Events, o \in Outcomes : click_event(ev, o) /\ UNCHANGED <<stdin, ext>>
    \/ \E eof \in BOOLEAN : click_delim(eof) /\ UNCHANGED <<stdin, ext>>

Spec == Init /\ [][Next]_vars

(***************************************************************************)
(* The registry over all the module objects, and the lines the writer      *)
(* produces from it                                                        *)
(***************************************************************************)
NextRegistry ==
    \/ \E m \in AllMods : register_module(m, <<>>) /\ UNCHANGED <<stdin, ext>>
    \/ start /\ UNCHANGED <<stdin, ext>>
    \/ write_results /\ UNCHANGED <<stdin, ext>>
    \/ write_result_collect /\ UNCHANGED <<stdin, ext>>
    \/ write_result_flush /\ UNCHANGED <<stdin, ext>>

SpecRegistry == Init /\ [][NextRegistry]_vars

(***************************************************************************)
(* Module.update on its own: one object, any sequence of update calls      *)
(***************************************************************************)
\* The objects update is called on.
UpdMods == {"m1", "m4", "m5"}

\* The values a call passes for a style field: one of them falsy.
StyleValue(f, c) ==
    CASE f \in {"urgent", "separator"} -> (c = 1)
      [] f = "min_width" -> IF c = 1 THEN 120 ELSE 0
      [] f = "separator_block_width" -> IF c = 1 THEN 15 ELSE 0
      [] f = "align" -> IF c = 1 THEN "right" ELSE ""
      [] f = "markup" -> IF c = 1 THEN "pango" ELSE "none"
      [] OTHER -> IF c = 1 THEN "#ff0000" ELSE ""

\* The style arguments of a call: the fields of S are passed, as chosen by c.
StyleArgs(S, c) == [f \in StyleSet |-> IF f \in S THEN Some(StyleValue(f, c[f])) ELSE None]

Overrides ==
    UNION {{StyleArgs(S, c) : c \in [S -> {1, 2}]} :
            S \in {T \in SUBSET StyleSet : Cardinality(T) <= MaxOverrides}}

\* The texts of a call: none passed, or a full and a short text.
UpdateTexts == {<<<<>>, None>>} \cup {<<<<v>>, Some(<<"short">>)>> : v \in Values}

UpdateCalls == {UpdateArgs(t[1], t[2], style) : t \in UpdateTexts, style \in Overrides}

\* self.update(...) called on object m with arguments a.
update_call(m, a) ==
    /\ last.mods = <<m>>
    /\ _state' = [_state EXCEPT ![m] = Module_update(m, a)]
    /\ last' = Op("update", <<m>>, None, Some(a))
    /\ UNCHANGED <<phase, modules, tasks, pc, handlers, stack, out, stdin, ext>>

\* Module.__init__ of the object under test has returned.
InitUpdate ==
    /\ InitRunner
    /\ stdin = NoStream
    /\ \E m \in UpdMods : last = Op("__init__", <<m>>, None, None)
    /\ InitExt

NextUpdate == \E m \in UpdMods, a \in UpdateCalls : update_call(m, a)

SpecUpdate == InitUpdate /\ [][NextUpdate]_vars

(***************************************************************************)
(* The reader on a given input stream                                      *)
(***************************************************************************)
\* The bytes i3bar writes, cut at the separators the reader looks for:
\* the opening "[" line, one event object, the newline after an event, the
\* "," before every event but the first.  A token is consumed whole.
Token(kind, ev) == [kind |-> kind, ev |-> ev]
OpenToken == Token("open", None)
NewlineToken == Token("nl", None)
CommaToken == Token("comma", None)
EventToken(ev) == Token("event", Some(ev))

\* Whether a token holds the separator: "\n", "}" or ",".
Holds(tok, sep) ==
    CASE sep = "\n" -> tok.kind \in {"open", "nl"}
      [] sep = "}" -> tok.kind = "event"
      [] sep = "," -> tok.kind = "comma"

RECURSIVE Encode(_)
Encode(evs) ==
    IF evs = <<>> THEN <<>>
    ELSE <<EventToken(Head(evs)), NewlineToken>>
         \o (IF Len(evs) > 1 THEN <<CommaToken>> \o Encode(Tail(evs)) ELSE <<>>)

StreamEvents ==
    {[ok |-> TRUE, name |-> Some("DiskModule"), instance |-> i] : i \in EventInstances}

Streams ==
    {[data |-> <<OpenToken>> \o Encode(evs), pos |-> 0] :
        evs \in UNION {[1..n -> StreamEvents] : n \in 0..MaxEvents}}

\* Mutant: the read stops after one token, whatever it holds.
readuntil_one_token(sep) ==
    IF stdin.pos < Len(stdin.data)
    THEN [found |-> TRUE, raw |-> <<stdin.data[stdin.pos + 1]>>, pos |-> stdin.pos + 1]
    ELSE [found |-> FALSE, raw |-> <<>>, pos |-> stdin.pos]

\* StreamReader.readuntil(sep): the bytes up to and including the first sep,
\* or IncompleteReadError when the stream ends before one.
readuntil(sep) ==
    LET idx == {j \in (stdin.pos + 1)..Len(stdin.data) : Holds(stdin.data[j], sep)} IN
    IF idx = {}
    THEN [found |-> FALSE, raw |-> SubSeq(stdin.data, stdin.pos + 1, Len(stdin.data)),
          pos |-> Len(stdin.data)]
    ELSE LET j == CHOOSE j \in idx : \A k \in idx : j <= k IN
         [found |-> TRUE, raw |-> SubSeq(stdin.data, stdin.pos + 1, j), pos |-> j]

Unparseable == [ok |-> FALSE, name |-> None, instance |-> None]

\* json.loads(raw): whitespace around one object is skipped, anything else
\* does not parse.
json_loads(raw) ==
    LET body == SelectSeq(raw, LAMBDA tok : tok.kind # "nl") IN
    IF Len(body) = 1 /\ body[1].kind = "event" THEN body[1].ev[1] ELSE Unparseable

click_connect_stream ==
    LET r == readuntil("\n") IN
    /\ click_connect(~r.found)
    /\ stdin' = [stdin EXCEPT !.pos = r.pos]
    /\ UNCHANGED ext

\* When the bytes end before the "}" the read raises inside the try, like a
\* parse failure.
click_event_stream(o) ==
    LET r == readuntil("}") IN
    /\ click_event(IF r.found THEN json_loads(r.raw) ELSE Unparseable, o)
    /\ stdin' = [stdin EXCEPT !.pos = r.pos]
    /\ UNCHANGED ext

click_delim_stream ==
    LET r == readuntil(",") IN
    /\ click_delim(~r.found)
    /\ stdin' = [stdin EXCEPT !.pos = r.pos]
    /\ UNCHANGED ext

InitReader ==
    /\ InitRunner
    /\ stdin \in Streams
    /\ last = Op("__init__", <<>>, None, None)
    /\ InitExt

\* The blocks are registered without signal ids: no dispatcher is installed.
NextReader ==
    \/ \E m \in Mods : register_module(m, <<>>) /\ UNCHANGED <<stdin, ext>>
    \/ start /\ UNCHANGED <<stdin, ext>>
    \/ \E elapsed \in BOOLEAN : start_return(elapsed) /\ UNCHANGED <<stdin, ext>>
    \/ write_results /\ UNCHANGED <<stdin, ext>>
    \/ write_result_collect /\ UNCHANGED <<stdin, ext>>
    \/ write_result_flush /\ UNCHANGED <<stdin, ext>>
    \/ \E m \in Mods, o \in Outcomes : loop(m, o) /\ UNCHANGED <<stdin, ext>>
    \/ click_connect_stream
    \/ \E o \in Outcomes : click_event_stream(o)
    \/ click_delim_stream

SpecReader == InitReader /\ [][NextReader]_vars

(***************************************************************************)
(* The runner under the asyncio event loop, with its timers                *)
(*                                                                         *)
(* sched.ready is the loop's queue of callbacks, first in first out: the   *)
(* first step of a task created by ensure_future, the wake-up of a task    *)
(* whose timer has fired, the wake-up of the main coroutine ("main").      *)
(* sched.timers holds the call_later handles of the run timeout and of the *)
(* writer's sleep in the order of their deadlines.  The run timeout is one *)
(* tick interval and the clock moves on between two call_later calls, so   *)
(* that order is the order in which the handles were armed.  A block       *)
(* sleeps for its own interval and wakes at any time; the input stream     *)
(* delivers no click event, it may reach its end at any time.              *)
(***************************************************************************)
MAIN == "main"

Ready(t) == sched.ready # <<>> /\ Head(sched.ready) = t
Queued(t) == \E i \in 1..Len(sched.ready) : sched.ready[i] = t
Dequeue == [sched EXCEPT !.ready = Tail(@)]
call_soon(t) == [sched EXCEPT !.ready = Append(@, t)]
call_later(t) == [sched EXCEPT !.timers = Append(@, t)]

\* Runner.__init__ has called ensure_future for the writer and the reader.
InitTimed ==
    /\ InitRunner
    /\ stdin = NoStream
    /\ last = Op("__init__", <<>>, None, None)
    /\ sched = [ready |-> <<WRITE_TASK, CLICK_TASK>>, timers |-> <<>>]
    /\ x11 = NoX11 /\ pulse = NoPulse /\ aio = NoAio

\* register_module: ensure_future(module.loop()) when the key was free.
register_module_timed(m) ==
    /\ register_module(m, <<>>)
    /\ sched' = IF modules' # modules THEN call_soon(m) ELSE sched

\* start: await asyncio.wait(self.tasks, timeout=timeout) arms the timeout.
start_timed ==
    /\ start
    /\ sched' = call_later(MAIN)

\* Mutant: the writer sleeps before it writes.
write_results_sleep_first ==
    /\ phase = "running"
    /\ pc[WRITE_TASK] = "sleep"
    /\ stack = <<>>
    /\ Ready(WRITE_TASK)
    /\ sched' = [ready |-> Tail(sched.ready), timers |-> Append(sched.timers, WRITE_TASK)]
    /\ last' = Op("write_results", <<>>, None, None)
    /\ UNCHANGED <<phase, modules, tasks, pc, _state, handlers, stack, out>>

\* A step of the writer task begins: self.write_result() is called.
write_results_timed ==
    /\ Ready(WRITE_TASK)
    /\ write_results
    /\ sched' = Dequeue

\* write_result returns to write_results, which awaits asyncio.sleep(self.sleep).
write_result_flush_timed ==
    /\ write_result_flush
    /\ sched' = IF Top.site = "tick" THEN call_later(WRITE_TASK) ELSE sched

\* A step of a block's loop task.
loop_timed(m, o) ==
    /\ Ready(m)
    /\ loop(m, o)
    /\ sched' = Dequeue

\* The sleep of a block's loop ends.
loop_wakes(m) ==
    /\ phase = "running"
    /\ stack = <<>>
    /\ pc[m] = "loop"
    /\ ~Queued(m)
    /\ sched' = call_soon(m)
    /\ last' = Op("sleep", <<>>, None, None)
    /\ UNCHANGED <<phase, modules, tasks, pc, _state, handlers, stack, out>>

\* The first step of the reader task: it awaits the first line of the stream.
click_events_timed ==
    /\ phase = "running"
    /\ stack = <<>>
    /\ Ready(CLICK_TASK)
    /\ sched' = Dequeue
    /\ last' = Op("click_events", <<>>, None, None)
    /\ UNCHANGED <<phase, modules, tasks, pc, _state, handlers, stack, out>>

\* The stream ends while the reader awaits its first line.
click_connect_timed ==
    /\ ~Queued(CLICK_TASK)
    /\ click_connect(TRUE)
    /\ UNCHANGED sched

\* The earliest timer is due: its task is woken through the ready queue.
timer_fires ==
    /\ phase = "running"
    /\ stack = <<>>
    /\ sched.timers # <<>>
    /\ sched' = [ready |-> Append(sched.ready, Head(sched.timers)),
                 timers |-> Tail(sched.timers)]
    /\ last' = Op("timer", <<>>, None, None)
    /\ UNCHANGED <<phase, modules, tasks, pc, _state, handlers, stack, out>>

\* asyncio.wait returns because the timeout has elapsed; start cleans up.
start_return_timed ==
    /\ Ready(MAIN)
    /\ start_return(TRUE)
    /\ sched' = Dequeue

NextTimed ==
    \/ \E m \in Mods : register_module_timed(m) /\ UNCHANGED <<stdin, x11, pulse, aio>>
    \/ start_timed /\ UNCHANGED <<stdin, x11, pulse, aio>>
    \/ write_results_timed /\ UNCHANGED <<stdin, x11, pulse, aio>>
    \/ write_result_collect /\ UNCHANGED <<stdin, ext>>
    \/ write_result_flush_timed /\ UNCHANGED <<stdin, x11, pulse, aio>>
    \/ \E m \in Mods, o \in Outcomes : loop_timed(m, o) /\ UNCHANGED <<stdin, x11, pulse, aio>>
    \/ \E m \in Mods : loop_wakes(m) /\ UNCHANGED <<stdin, x11, pulse, aio>>
    \/ click_events_timed /\ UNCHANGED <<stdin, x11, pulse, aio>>
    \/ click_connect_timed /\ UNCHANGED <<stdin, x11, pulse, aio>>
    \/ timer_fires /\ UNCHANGED <<stdin, x11, pulse, aio>>
    \/ start_return_timed /\ UNCHANGED <<stdin, x11, pulse, aio>>

SpecTimed == InitTimed /\ [][NextTimed]_vars

(***************************************************************************)
(* The audio volume block (modules/pulsectl.py) and its server             *)
(*  pulse.server: what pulse.server_info() and pulse.sink_list() return    *)
(*  pulse.sink_index, pulse.sink: the attributes of the block (None before *)
(*  they are assigned); pulse.status: "new" | "running" | "failed"         *)
(***************************************************************************)
SinkNames == {"alsa_a", "alsa_b"}
Sinks == [index : 0..MaxSinks, name : SinkNames]

\* The server numbers its sinks: no two sinks of a list share an index.
SinkLists ==
    {l \in UNION {[1..n -> Sinks] : n \in 0..MaxSinks} :
        \A i, j \in 1..Len(l) : l[i].index = l[j].index => i = j}

\* The default sink name may name no sink of the list.
Servers == [default_sink_name : SinkNames \cup {"gone"}, sink_list : SinkLists]

\* PulseAudioModule._find_sink_index: the assert, then next(generator, 0).
_find_sink_index(server) ==
    LET default_sink_name == server.default_sink_name
        sink_list == server.sink_list
        hits == {i \in 1..Len(sink_list) : sink_list[i].name = default_sink_name}
    IN IF ~(Len(sink_list) > 0) THEN [exc |-> Some("AssertionError"), sink_index |-> None]
       ELSE [exc |-> None,
             sink_index |-> Some(IF hits # {}
                                 THEN sink_list[CHOOSE i \in hits : \A j \in hits : i <= j].index
                                 ELSE 0)]

\* PulseAudioModule._update_sink_info: pulse.sink_info(index) returns the sink
\* with that index and raises PulseIndexError when the server has none.
_update_sink_info(server, sink_index) ==
    LET hits == {i \in 1..Len(server.sink_list) : server.sink_list[i].index = sink_index}
    IN IF hits = {} THEN [exc |-> Some("PulseIndexError"), sink |-> None]
       ELSE [exc |-> None, sink |-> Some(server.sink_list[CHOOSE i \in hits : TRUE])]

\* self._find_sink_index(); self._update_sink_info(), as __init__ and the
\* "server" branch of _handle_event call them.
FindAndUpdate(op, ev) ==
    LET f == _find_sink_index(pulse.server) IN
    IF f.exc # None
    THEN /\ pulse' = [pulse EXCEPT !.status = "failed"]
         /\ last' = Op(op, <<>>, f.exc, ev)
    ELSE LET u == _update_sink_info(pulse.server, f.sink_index[1]) IN
         /\ pulse' = [pulse EXCEPT !.sink_index = f.sink_index,
                                   !.sink = IF u.exc = None THEN u.sink ELSE @,
                                   !.status = IF u.exc = None THEN "running" ELSE "failed"]
         /\ last' = Op(op, <<>>, u.exc, ev)

PulseAudioModule_init ==
    /\ pulse.status = "new"
    /\ FindAndUpdate("PulseAudioModule.__init__", Some("server"))
    /\ UNCHANGED <<phase, modules, tasks, pc, _state, handlers, stack, out>>

\* One event received by event_listen in the block's thread.
_handle_event(facility) ==
    /\ pulse.status = "running"
    /\ IF facility = "server"
       THEN FindAndUpdate("_handle_event", Some(facility))
       ELSE LET u == _update_sink_info(pulse.server, pulse.sink_index[1]) IN
            /\ pulse' = [pulse EXCEPT !.sink = IF u.exc = None THEN u.sink ELSE @,
                                      !.status = IF u.exc = None THEN "running" ELSE "failed"]
            /\ last' = Op("_handle_event", <<>>, u.exc, Some(facility))
    /\ UNCHANGED <<phase, modules, tasks, pc, _state, handlers, stack, out>>

\* One change of the server: another default sink name, a sink unplugged, a
\* sink plugged in (it gets an index no present sink has).
ServerChanges(server) ==
    LET l == server.sink_list IN
    {[server EXCEPT !.default_sink_name = n] : n \in (SinkNames \cup {"gone"}) \ {server.default_sink_name}}
    \cup {[server EXCEPT !.sink_list = SubSeq(l, 1, i - 1) \o SubSeq(l, i + 1, Len(l))] : i \in 1..Len(l)}
    \cup {[server EXCEPT !.sink_list = Append(l, sink)] :
            sink \in {k \in Sinks : Len(l) < MaxSinks /\ \A i \in 1..Len(l) : l[i].index # k.index}}

server_changes(new) ==
    /\ new \in ServerChanges(pulse.server)
    /\ pulse' = [pulse EXCEPT !.server = new]
    /\ last' = Op("server", <<>>, None, None)
    /\ UNCHANGED <<phase, modules, tasks, pc, _state, handlers, stack, out>>

InitPulse ==
    /\ InitRunner
    /\ stdin = NoStream
    /\ last = Op("__init__", <<>>, None, None)
    /\ sched = NoSched /\ x11 = NoX11 /\ aio = NoAio
    /\ \E server \in Servers :
          pulse = [server |-> server, sink_index |-> None, sink |-> None, status |-> "new"]

NextPulse ==
    \/ PulseAudioModule_init /\ UNCHANGED <<stdin, sched, x11, aio>>
    \/ \E facility \in {"server", "sink"} : _handle_event(facility) /\ UNCHANGED <<stdin, sched, x11, aio>>
    \/ \E new \in ServerChanges(pulse.server) : server_changes(new) /\ UNCHANGED <<stdin, sched, x11, aio>>

SpecPulse == InitPulse /\ [][NextPulse]_vars

(***************************************************************************)
(* The aio_i3status runtime (src/aio_i3status/core.py)                     *)
(*  aio.objs[m]: None before Module.__init__, then <<attrs>>, the object's *)
(*    attributes as a function from attribute names to Optional values; an *)
(*    attribute that was never assigned is not in the domain               *)
(*  aio.modules, aio.out: Runner.modules and the lines on stdout           *)
(*  aio.writer: "sleep" | "failed"; aio.loops[m]: the loop task of m       *)
(*  aio.phase: "setup" | "running" | "stopped"                             *)
(***************************************************************************)
AioMods == {"a1", "a2", "a3"}

\* The keyword arguments the objects are constructed with.
AioCtorArgs ==
    [a1 |-> [cls |-> "ClockModule", name |-> None, instance |-> None],
     a2 |-> [cls |-> "ClockModule", name |-> Some("clock"), instance |-> None],
     a3 |-> [cls |-> "DiskModule", name |-> Some(""), instance |-> Some("home")]]

\* The keys of the dict format() builds, in its order.
AioFormatKeys ==
    <<"name", "instance", "color", "background", "border", "border_top", "border_right",
      "border_left", "min_width", "align", "urgent", "separator",
      "separator_block_width", "full_text", "short_text">>

\* The attributes Module.__init__ assigns whatever its arguments are.
AioAssigned ==
    {"instance", "color", "background", "border", "border_top", "border_right",
     "border_bottom", "border_left", "min_width", "align", "urgent", "separator",
     "separator_block_width", "short_text", "full_text"}

\* Module.__init__: self.name is assigned under `if not name` only.
AioModule_init(m) ==
    LET a == AioCtorArgs[m]
        rest == [k \in AioAssigned |->
                    CASE k = "instance" -> a.instance
                      [] k = "urgent" -> Some(FALSE)
                      [] k = "separator" -> Some(TRUE)
                      [] k = "full_text" -> Some(<<>>)
                      [] OTHER -> None]
    IN IF ~Truthy(a.name) THEN ("name" :> Some(a.cls)) @@ rest ELSE rest

\* Module.format: reading an attribute that was never assigned raises
\* AttributeError; the items whose value is None are left out.
format(attrs) ==
    IF \E i \in 1..Len(AioFormatKeys) : AioFormatKeys[i] \notin DOMAIN attrs
    THEN [exc |-> Some("AttributeError"), dict |-> <<>>]
    ELSE [exc |-> None,
          dict |-> SelectSeq([i \in 1..Len(AioFormatKeys) |->
                                <<AioFormatKeys[i], attrs[AioFormatKeys[i]]>>],
                             LAMBDA kv : kv[2] # None)]

AioUnchanged == UNCHANGED <<phase, modules, tasks, pc, _state, handlers, stack, out>>

\* An object is constructed.
construct_aio(m) ==
    /\ aio.objs[m] = None
    /\ aio' = [aio EXCEPT !.objs[m] = Some(AioModule_init(m))]
    /\ last' = Op("Module.__init__", <<m>>, None, None)
    /\ AioUnchanged

\* Runner.register_module; x is a constructed module or some other object.
register_module_aio(x) ==
    /\ aio.phase = "setup"
    /\ IF x \notin AioMods
       THEN /\ last' = Op("register_module", <<>>, Some("ValueError"), None)
            /\ aio' = aio
       ELSE /\ aio.objs[x] # None
            /\ \A i \in 1..Len(aio.modules) : aio.modules[i] # x
            /\ aio' = [aio EXCEPT !.modules = Append(@, x), !.loops[x] = "loop"]
            /\ last' = Op("register_module", <<x>>, None, None)
    /\ AioUnchanged

\* Runner.start up to its await.
start_aio ==
    /\ aio.phase = "setup"
    /\ aio' = [aio EXCEPT !.phase = "running",
                          !.out = @ \o <<[kind |-> "header", blocks |-> <<>>],
                                         [kind |-> "open", blocks |-> <<>>]>>]
    /\ last' = Op("start", <<>>, None, None)
    /\ AioUnchanged

\* One round of the while loop of Runner.write_results.  An exception of
\* module.format() leaves the coroutine: the writer task ends with it.
write_results_aio ==
    /\ aio.phase = "running"
    /\ aio.writer = "sleep"
    /\ Len(aio.out) < MaxOut
    /\ LET output == [i \in 1..Len(aio.modules) |-> format(aio.objs[aio.modules[i]][1])] IN
       IF \E i \in 1..Len(output) : output[i].exc # None
       THEN /\ aio' = [aio EXCEPT !.writer = "failed"]
            /\ last' = Op("write_results", <<>>, Some("AttributeError"), None)
       ELSE /\ aio' = [aio EXCEPT !.out = Append(@,
                            [kind |-> "line",
                             blocks |-> [i \in 1..Len(output) |-> json_dumps(output[i].dict)]])]
            /\ last' = Op("write_results", <<>>, None, None)
    /\ AioUnchanged

\* One round of PollingModule.loop: run() stores a text or raises; the except
\* branch sets urgent and then formats the message with self.name.
loop_aio(m, o) ==
    /\ aio.phase = "running"
    /\ aio.loops[m] = "loop"
    /\ LET attrs == aio.objs[m][1] IN
       IF o.ok
       THEN /\ aio' = [aio EXCEPT !.objs[m] = Some([attrs EXCEPT !["full_text"] = Some(<<o.v>>)])]
            /\ last' = Op("loop", <<m>>, None, None)
       ELSE IF "name" \in DOMAIN attrs
       THEN /\ aio' = [aio EXCEPT !.loops[m] = "done",
                            !.objs[m] = Some([attrs EXCEPT
                                !["urgent"] = Some(TRUE),
                                !["full_text"] = Some(<<"Exception in ", attrs["name"][1], ": ", o.v>>)])]
            /\ last' = Op("loop", <<m>>, Some(o.v), None)
       ELSE /\ aio' = [aio EXCEPT !.loops[m] = "failed",
                            !.objs[m] = Some([attrs EXCEPT !["urgent"] = Some(TRUE)])]
            /\ last' = Op("loop", <<m>>, Some("AttributeError"), None)
    /\ AioUnchanged

\* asyncio.wait(self.tasks) returns once every task has ended; start returns.
start_return_aio ==
    /\ aio.phase = "running"
    /\ aio.writer = "failed"
    /\ \A m \in AioMods : aio.loops[m] # "loop"
    /\ aio' = [aio EXCEPT !.phase = "stopped"]
    /\ last' = Op("start", <<>>, None, Some("return"))
    /\ AioUnchanged

InitAio ==
    /\ InitRunner
    /\ stdin = NoStream
    /\ last = Op("__init__", <<>>, None, None)
    /\ sched = NoSched /\ x11 = NoX11 /\ pulse = NoPulse
    /\ aio = [phase |-> "setup", objs |-> [m \in AioMods |-> None], modules |-> <<>>,
              out |-> <<>>, writer |-> "sleep", loops |-> [m \in AioMods |-> "none"]]

NextAio ==
    \/ \E m \in AioMods : construct_aio(m) /\ UNCHANGED <<stdin, sched, x11, pulse>>
    \/ \E x \in AioMods \cup {"object"} : register_module_aio(x) /\ UNCHANGED <<stdin, sched, x11, pulse>>
    \/ start_aio /\ UNCHANGED <<stdin, sched, x11, pulse>>
    \/ write_results_aio /\ UNCHANGED <<stdin, sched, x11, pulse>>
    \/ \E m \in AioMods, o \in Outcomes : loop_aio(m, o) /\ UNCHANGED <<stdin, sched, x11, pulse>>
    \/ start_return_aio /\ UNCHANGED <<stdin, sched, x11, pulse>>

SpecAio == InitAio /\ [][NextAio]_vars

(***************************************************************************)
(* The caffeine block as tests/blocks/test_x11.py drives it                *)
(*  x11.state: the state field of what the display's dpms_info() returns   *)
(*  x11.calls: the calls the display has recorded since reset_mock()       *)
(*  x11.block: the block's snapshot; x11.ran: run() has been awaited since *)
(*  the display's state was last set                                       *)
(* The block's own code (i3pyblocks/blocks/x11.py) is not in the source    *)
(* tree: CaffeineBlock_run and CaffeineBlock_click_handler are written     *)
(* from the behaviour the test and its description require.                *)
(***************************************************************************)
CAFFEINE == "caffeine"
DpmsStates == {0, 1}

Call(name, timeout, interval) == [name |-> name, timeout |-> timeout, interval |-> interval]

\* CaffeineBlock.run: the text for the display's power-management state.
CaffeineBlock_run(state) ==
    update(CAFFEINE, IF state = 1 THEN <<"CAFFEINE OFF">> ELSE <<"CAFFEINE ON">>, None)

\* CaffeineBlock.click_handler: the calls it makes on the display.
CaffeineBlock_click_handler(state) ==
    IF state = 1
    THEN <<Call("dpms_disable", None, None), Call("set_screen_saver", Some(0), Some(0))>>
    ELSE <<Call("dpms_enable", None, None), Call("set_screen_saver", Some(-1), Some(-1))>>

X11Unchanged == UNCHANGED <<phase, modules, tasks, pc, _state, handlers, stack, out>>

\* mock_Display.dpms_info.return_value = AttributeDict(state=...)
set_dpms_info(state) ==
    /\ x11' = [x11 EXCEPT !.state = state, !.ran = FALSE]
    /\ last' = Op("dpms_info.return_value", <<>>, None, None)
    /\ X11Unchanged

\* mock_Display.reset_mock()
reset_mock ==
    /\ x11.calls # <<>>
    /\ x11' = [x11 EXCEPT !.calls = <<>>]
    /\ last' = Op("reset_mock", <<>>, None, None)
    /\ X11Unchanged

\* await instance.run()
run_caffeine ==
    /\ x11' = [x11 EXCEPT !.block = CaffeineBlock_run(x11.state), !.ran = TRUE]
    /\ last' = Op("CaffeineBlock.run", <<CAFFEINE>>, None, None)
    /\ X11Unchanged

\* await instance.click_handler(), which the test awaits after run().
click_caffeine ==
    /\ x11.ran
    /\ Len(x11.calls) < 2 * MaxClicks
    /\ x11' = [x11 EXCEPT !.calls = @ \o CaffeineBlock_click_handler(x11.state)]
    /\ last' = Op("CaffeineBlock.click_handler", <<CAFFEINE>>, None, None)
    /\ X11Unchanged

\* instance = x11.CaffeineBlock() with the display patched in.
InitX11 ==
    /\ InitRunner
    /\ stdin = NoStream
    /\ last = Op("__init__", <<CAFFEINE>>, None, None)
    /\ sched = NoSched /\ pulse = NoPulse /\ aio = NoAio
    /\ \E state \in DpmsStates :
          x11 = [state |-> state, calls |-> <<>>, block |-> update(CAFFEINE, <<>>, None),
                 ran |-> FALSE]

NextX11 ==
    \/ \E state \in DpmsStates : set_dpms_info(state) /\ UNCHANGED <<stdin, sched, pulse, aio>>
    \/ reset_mock /\ UNCHANGED <<stdin, sched, pulse, aio>>
    \/ run_caffeine /\ UNCHANGED <<stdin, sched, pulse, aio>>
    \/ click_caffeine /\ UNCHANGED <<stdin, sched, pulse, aio>>

SpecX11 == InitX11 /\ [][NextX11]_vars

(***************************************************************************)
(* Vocabulary of the properties                                            *)
(***************************************************************************)
\* The modules registered successfully, in the order of their registration:
\* register_module appends one loop task per success to Runner.tasks, after
\* the writer and the reader task.
RegistrationOrder == SubSeq(tasks, 3, Len(tasks))

Registered == {modules[i].mod : i \in 1..Len(modules)}

\* The value of member k of a serialized block object, None when absent.
Member(obj, k) ==
    LET hits == {i \in 1..Len(obj.members) : obj.members[i][1] = k}
    IN IF hits = {} THEN None ELSE Some(obj.members[CHOOSE i \in hits : TRUE][2])

\* The (name, instance) a serialized block object carries.
BlockIdentity(obj) == <<Member(obj, "name"), Member(obj, "instance")>>
ModuleIdentity(m) == <<Some(ModuleName(m)), ModuleInstance(m)>>

TickLines == {i \in 1..Len(out) : out[i].kind = "line"}
HeaderAt == {i \in 1..Len(out) : out[i].kind = "header"}

\* Does the step record r say that register_module was called?
IsRegister(r) == r.op = "register_module"

KeysUnique ==
    \A i, j \in 1..Len(modules) : modules[i].key = modules[j].key => i = j

(***************************************************************************)
(* C1: registering a block whose (name, instance) key is already in the    *)
(* registry fails with a registration error (ValueError) and leaves the    *)
(* registry as it was, so the entry of a key stays the block that was      *)
(* registered first with it; the keys of the registry are always unique.   *)
(***************************************************************************)
C1_DuplicateRejected ==
    /\ []KeysUnique
    /\ [][(IsRegister(last') /\ _get_module_key(last'.mods[1]) \in Keys)
            => (last'.exc = Some("ValueError") /\ modules' = modules)]_vars

\* m3 was rejected while m1, registered first under the same key, is the entry.
C1_Witness ==
    /\ IsRegister(last) /\ last.mods = <<"m3">> /\ last.exc = Some("ValueError")
    /\ \E i \in 1..Len(modules) :
          modules[i] = [key |-> _get_module_key("m3"), mod |-> "m1"]

(***************************************************************************)
(* C2: every emitted line (periodic tick, click write, signal write) lists *)
(* the blocks in registration order: its blocks are, position by position, *)
(* the blocks registered so far, and every line written after start lists  *)
(* all registered blocks in that one order.                                *)
(***************************************************************************)
LineInOrder(i) ==
    LET b == out[i].blocks IN
    /\ Len(b) <= Len(RegistrationOrder)
    /\ \A j \in 1..Len(b) : BlockIdentity(b[j]) = ModuleIdentity(RegistrationOrder[j])
    /\ (\E h \in HeaderAt : h < i) => Len(b) = Len(RegistrationOrder)

C2_RegistrationOrder == \A i \in TickLines : LineInOrder(i)

\* Two blocks are registered, the second one refreshed before the first, and
\* an out-of-band line and a periodic line were both written after that.
C2_Witness ==
    /\ \E i \in TickLines :
          /\ out[i].site = "tick"
          /\ Len(out[i].blocks) = 2
          /\ Member(out[i].blocks[1], "full_text") = Some(<<>>)
          /\ Member(out[i].blocks[2], "full_text") = Some(<<"v1">>)
    /\ \E i \in TickLines : out[i].site # "tick" /\ Len(out[i].blocks) = 2

(***************************************************************************)
(* More vocabulary                                                         *)
(***************************************************************************)
Tokens(text) == {text[i] : i \in 1..Len(text)}

\* Snapshot s is an urgent diagnostic message naming block m and error e.
IsDiagnosticOf(s, m, e) ==
    /\ s.urgent = Some(TRUE)
    /\ {ModuleName(m), e} \subseteq Tokens(s.full_text[1])

\* The step records: the loop of a block raised / a click event was handled.
IsLoopRaise(r) == r.op = "loop" /\ r.exc # None
IsClick(r) == r.op = "click_event"

\* The registry key a click event is addressed to.
EventKey(ev) == KeyOf(IF ev.name = None THEN "None" ELSE ev.name[1], ev.instance)

\* The registered block that owns key k.
OwnerOf(k) == CHOOSE m \in Registered : _get_module_key(m) = k

(***************************************************************************)
(* C3: when the fetch step raises inside a polling block's loop, the       *)
(* block's snapshot becomes an urgent diagnostic message that contains the *)
(* block's name and the error description, and the loop ends: from then on *)
(* the loop task stays finished and no step is a fetch made by that loop.  *)
(***************************************************************************)
C3_LoopFailureIsFinal ==
    /\ [][IsLoopRaise(last') =>
            LET m == last'.mods[1] IN
            /\ IsDiagnosticOf(_state'[m], m, last'.exc[1])
            /\ pc'[m] = "done"]_vars
    /\ [][\A m \in Mods : pc[m] = "done" =>
            (pc'[m] = "done" /\ ~(last'.op = "loop" /\ last'.mods = <<m>>))]_vars

\* A block's loop has failed and a line written afterwards shows the diagnostic.
C3_Witness ==
    \E m \in Registered :
        /\ pc[m] = "done"
        /\ IsDiagnosticOf(_state[m], m, "boom")
        /\ \E i \in TickLines : \E j \in 1..Len(out[i].blocks) :
              /\ BlockIdentity(out[i].blocks[j]) = ModuleIdentity(m)
              /\ Member(out[i].blocks[j], "urgent") = Some(TRUE)

(***************************************************************************)
(* C4: the failure of one block's fetch step is contained.  The step in    *)
(* which block B's loop fails changes no other task, no other block's      *)
(* snapshot and not the runner; while the runner runs the writer is alive  *)
(* and no task is cancelled; tasks are cancelled only by the clean-up that *)
(* follows the elapsed timeout, never because some loop has finished.      *)
(***************************************************************************)
C4_FailureContained ==
    /\ [](phase = "running" =>
            (pc[WRITE_TASK] = "sleep" /\ \A t \in TaskIds : pc[t] # "cancelled"))
    /\ [][IsLoopRaise(last') =>
            LET b == last'.mods[1] IN
            /\ \A t \in TaskIds \ {b} : pc'[t] = pc[t]
            /\ \A o \in Mods \ {b} : _state'[o] = _state[o]
            /\ phase' = phase /\ out' = out /\ stack' = stack]_vars
    /\ [][(\E t \in TaskIds : pc[t] # "cancelled" /\ pc'[t] = "cancelled") =>
            (last'.op = "_clean_up" /\ last'.ev[1].elapsed)]_vars

\* After B failed another block's loop fetched again, the reader is still
\* reading events and the writer is alive.
C4_Witness ==
    \E b \in Registered, m \in Registered :
        /\ b # m
        /\ pc[b] = "done"
        /\ last = Op("loop", <<m>>, None, None)
        /\ pc[CLICK_TASK] = "read"
        /\ pc[WRITE_TASK] = "sleep"
        /\ \E i \in TickLines : out[i].site = "tick"

(***************************************************************************)
(* C5: a click event whose key is not in the registry is dropped: no       *)
(* click_handler is invoked, no error is raised and the reader goes on.    *)
(***************************************************************************)
C5_UnknownKeyDropped ==
    [][(IsClick(last') /\ last'.ev[1].ok /\ EventKey(last'.ev[1]) \notin Keys) =>
        (/\ last'.mods = <<>>
         /\ last'.exc = None
         /\ pc'[CLICK_TASK] \notin {"done", "failed"})]_vars

(***************************************************************************)
(* C6: a click event addressed to the key of a registered block invokes    *)
(* the click_handler of exactly that block, once, and of no other block;   *)
(* the snapshots of the other blocks are unchanged by the dispatch.        *)
(***************************************************************************)
C6_DispatchToOwner ==
    [][(IsClick(last') /\ last'.ev[1].ok /\ EventKey(last'.ev[1]) \in Keys) =>
        LET m == OwnerOf(EventKey(last'.ev[1])) IN
        /\ last'.mods = <<m>>
        /\ \A o \in Mods \ {m} : _state'[o] = _state[o]]_vars

\* Two blocks of the same name are registered; an event for the second one
\* refreshed it and left the first one as constructed.
C6_Witness ==
    /\ Len(modules) = 2
    /\ modules[1].mod = "m1"
    /\ last = Op("click_event", <<"m2">>, None,
                 Some([ok |-> TRUE, name |-> Some("DiskModule"), instance |-> None]))
    /\ _state["m1"].full_text = Some(<<>>)
    /\ _state["m2"].full_text = Some(<<"v1">>)

(***************************************************************************)
(* C7: an unparseable click event, or a click_handler that raises, ends    *)
(* the reader task and nothing else: the exception is caught in the reader *)
(* (the task finishes, it does not fail), and every other task, every      *)
(* snapshot (the raising block's included), the runner and the output are  *)
(* as before.                                                              *)
(***************************************************************************)
C7_ReaderFailureContained ==
    [][(IsClick(last') /\ last'.exc # None /\ (~last'.ev[1].ok \/ last'.mods # <<>>)) =>
        (/\ pc'[CLICK_TASK] = "done"
         /\ \A t \in TaskIds \ {CLICK_TASK} : pc'[t] = pc[t]
         /\ _state' = _state
         /\ phase' = phase /\ out' = out /\ stack' = stack)]_vars

\* The click_handler of a refreshed block raised: the reader is finished, the
\* block keeps its snapshot and its loop, the writer is alive.
C7_Witness ==
    \E m \in Registered :
        /\ last.op = "click_event" /\ last.mods = <<m>> /\ last.exc = Some("boom")
        /\ pc[CLICK_TASK] = "done"
        /\ pc[m] = "loop"
        /\ pc[WRITE_TASK] = "sleep"
        /\ _state[m].full_text = Some(<<"v1">>)
        /\ phase = "running"

(***************************************************************************)
(* C8: the output stream starts with the protocol header: the header line  *)
(* and the array-open line are written once, and no line comes before them.*)
(***************************************************************************)
C8_HeaderFirst ==
    /\ Cardinality(HeaderAt) <= 1
    /\ out # <<>> => (Len(out) >= 2 /\ out[1] = HeaderLine /\ out[2] = OpenLine)

(***************************************************************************)
(* C9 as stated: once a block's loop has failed, every line emitted later  *)
(* shows the urgent diagnostic message for that block.                     *)
(***************************************************************************)
ShowsDiagnostic(line, m) ==
    \E j \in 1..Len(line.blocks) :
        /\ BlockIdentity(line.blocks[j]) = ModuleIdentity(m)
        /\ Member(line.blocks[j], "urgent") = Some(TRUE)

AddressedTo(r, m) ==
    \/ r.op = "click_event" /\ r.ev[1].ok /\ EventKey(r.ev[1]) = _get_module_key(m)
    \/ r.op = "_handler" /\ handlers[r.ev[1].signum] = Some(m)

C10_WritesExclusive ==
    /\ Len(stack) <= 1
    /\ \A f \in 1..Len(stack) : \A j \in 1..Len(stack[f].output) :
          stack[f].output[j] = json_dumps(result(_state[ModuleValues[j]]))

(***************************************************************************)
(* C11: the reader handles the click events of the input stream one at a   *)
(* time and in stream order.  Each pass of its loop takes the first event  *)
(* it has not read yet, passing over nothing but whitespace; a dispatch is *)
(* followed by one out-of-band line, then by the read of one delimiter,    *)
(* and only then by the next event; as long as the reader runs, the        *)
(* out-of-band lines of the reader are as many as the events it has read.  *)
(***************************************************************************)
ClickLines == {i \in 1..Len(out) : out[i].site = "click"}

\* The places of the event tokens among the first n tokens of the stream.
EventsIn(n) == {j \in 1..n : stdin.data[j].kind = "event"}

\* The tokens a step of the reader consumed.
Consumed == SubSeq(stdin.data, stdin.pos + 1, stdin'.pos)

Kinds(raw) == [j \in 1..Len(raw) |-> raw[j].kind]

ReaderRuns == pc[CLICK_TASK] \in {"read", "write", "delim"}

OneLinePerEvent ==
    ReaderRuns =>
        Cardinality(ClickLines) + (IF pc[CLICK_TASK] = "write" THEN 1 ELSE 0)
            = Cardinality(EventsIn(stdin.pos))

C11_OneAtATimeInOrder ==
    [][/\ (IsClick(last') /\ EventsIn(Len(stdin.data)) \ EventsIn(stdin.pos) # {}) =>
            /\ pc[CLICK_TASK] = "read"
            /\ Kinds(Consumed) \in {<<"event">>, <<"nl", "event">>}
            /\ last'.ev = stdin.data[stdin'.pos].ev
            /\ last'.exc = None =>
                    /\ pc'[CLICK_TASK] = "write"
                    /\ Len(stack') = 1 /\ stack'[1].site = "click"
                    /\ out' = out
       /\ (pc[CLICK_TASK] = "write" /\ pc'[CLICK_TASK] # "write") =>
            \/ last'.op = "_clean_up"
            \/ /\ last'.op = "flush"
               /\ pc'[CLICK_TASK] = "delim"
               /\ Len(out') = Len(out) + 1 /\ out'[Len(out')].site = "click"
       /\ (pc[CLICK_TASK] = "delim" /\ pc'[CLICK_TASK] = "read") =>
            /\ last'.op = "click_delim"
            /\ Kinds(Consumed) \in {<<"comma">>, <<"nl", "comma">>}
       /\ (Len(out') > Len(out) /\ out'[Len(out')].site = "click") =>
            pc[CLICK_TASK] = "write"
       /\ OneLinePerEvent'
      ]_vars

\* Two events for the same key, one after the other, each with its own line.
C11_Witness ==
    /\ pc[CLICK_TASK] = "delim"
    /\ Cardinality(ClickLines) = 2
    /\ \E i, j \in EventsIn(stdin.pos) : i < j /\ stdin.data[i] = stdin.data[j]
    /\ Cardinality(EventsIn(stdin.pos)) = 2

Refreshed(m) == {json_dumps(result(update(m, <<v>>, None))) : v \in Values}

\* The place of block m in a full-snapshot line.
PlaceOf(m) == CHOOSE j \in 1..Len(ModuleValues) : ModuleValues[j] = m

C13_SignalFailureCaught ==
    [][(last'.op = "_handler" /\ last'.exc # None) =>
        /\ phase' = phase
        /\ pc' = pc
        /\ tasks' = tasks
        /\ handlers' = handlers
        /\ stack' = stack
        /\ out' = out
        /\ _state' = _state
        /\ modules' = modules]_vars

\* The handler has raised while the writer, the reader and the loop run.
C13_Witness ==
    /\ last.op = "_handler" /\ last.exc = Some("boom")
    /\ phase = "running"
    /\ pc[WRITE_TASK] = "sleep"
    /\ pc[CLICK_TASK] = "read"
    /\ pc[last.mods[1]] = "loop"
    /\ handlers["SIGUSR1"] = last.mods

(***************************************************************************)
(* C14: start(timeout) can return as soon as the timeout has elapsed,      *)
(* although the writer task never completes by itself, and once start has  *)
(* returned every task that was created (the writer, the reader, the loop  *)
(* of every registered block) is complete or cancelled.                    *)
(***************************************************************************)
Started == {t \in TaskIds : pc[t] # "none"}

C14_StartReturnsClean ==
    /\ pc[WRITE_TASK] \in {"sleep", "cancelled"}
    /\ (phase = "running" /\ stack = <<>>) => ENABLED start_return(TRUE)
    /\ phase = "stopped" =>
            /\ \A t \in Started : Finished(t)
            /\ \A m \in Registered : m \in Started
            /\ pc[WRITE_TASK] = "cancelled"

\* start has returned on the timeout: one loop had ended before, the writer,
\* the reader and another loop were cancelled.
C14_Witness ==
    /\ phase = "stopped"
    /\ last.op = "_clean_up" /\ last.ev = Some([elapsed |-> TRUE])
    /\ pc[WRITE_TASK] = "cancelled"
    /\ pc[CLICK_TASK] = "cancelled"
    /\ \E m, n \in Registered : pc[m] = "done" /\ pc[n] = "cancelled"

(***************************************************************************)
(* C15: a registration conflict is raised inside the register_module call, *)
(* before start and before any task has run a step: the call creates no    *)
(* loop task for the rejected block, installs no signal dispatcher for it, *)
(* and leaves the registry and the runner's task list as they were.        *)
(***************************************************************************)
C15_RejectedChangesNothing ==
    [][(IsRegister(last') /\ last'.exc # None) =>
        /\ phase = "setup" /\ phase' = "setup"
        /\ pc[WRITE_TASK] = "sleep" /\ pc[CLICK_TASK] = "connect"
        /\ modules' = modules
        /\ tasks' = tasks
        /\ pc' = pc
        /\ handlers' = handlers
        /\ _state' = _state /\ out' = out /\ stack' = stack]_vars

\* A block that was never registered is rejected in a call that supplied a
\* signal id: it has no task, and the id still belongs to the earlier block.
C15_Witness ==
    /\ IsRegister(last) /\ last.exc = Some("ValueError")
    /\ last.ev = Some([signals |-> <<"SIGUSR1">>])
    /\ pc[last.mods[1]] = "none"
    /\ \A i \in 1..Len(tasks) : tasks[i] # last.mods[1]
    /\ handlers["SIGUSR1"] # None /\ handlers["SIGUSR1"] # last.mods
    /\ Len(modules) = 2

(***************************************************************************)
(* C16: after an update call every style field of the snapshot is the      *)
(* value passed to that call when one was passed, and the value given at   *)
(* construction otherwise, whatever the snapshot held before the call (an  *)
(* override lasts for one update only).                                    *)
(***************************************************************************)
C16_StyleFromCallOrConstruction ==
    [][last'.op = "update" =>
        LET m == last'.mods[1]
            a == last'.ev[1]
        IN \A f \in StyleSet :
            _state'[m][f] = (IF a.style[f] # None THEN a.style[f] ELSE Attr(m, f))]_vars

\* An object built with urgent=True and a color shows, after
\* update(urgent=False), urgent false and the color of its construction.
C16_Witness ==
    /\ last.op = "update" /\ last.mods = <<"m4">>
    /\ last.ev[1].style["urgent"] = Some(FALSE)
    /\ last.ev[1].style["color"] = None
    /\ Attr("m4", "urgent") = Some(TRUE)
    /\ _state["m4"]["urgent"] = Some(FALSE)
    /\ _state["m4"]["color"] = Some("#ffffff")

(***************************************************************************)
(* C17: the result of a block holds a key exactly when the snapshot value  *)
(* of that key is not None, with that value; no key appears twice and      *)
(* full_text is always among them.                                         *)
(***************************************************************************)
ResultKeys(r) == {r[i][1] : i \in 1..Len(r)}

C17_ResultOmitsExactlyNone ==
    \A m \in AllMods :
        LET r == result(_state[m]) IN
        /\ ResultKeys(r) = {k \in FieldSet : _state[m][k] # None}
        /\ \A i, j \in 1..Len(r) : r[i][1] = r[j][1] => i = j
        /\ \A i \in 1..Len(r) : Some(r[i][2]) = _state[m][r[i][1]]
        /\ "full_text" \in ResultKeys(r)

\* A snapshot with an empty full_text, urgent None and separator false: the
\* result keeps the falsy values and leaves urgent out.
C17_Witness ==
    /\ last.op = "update" /\ last.mods = <<"m5">>
    /\ _state["m5"]["full_text"] = Some(<<>>)
    /\ _state["m5"]["urgent"] = None
    /\ _state["m5"]["separator"] = Some(FALSE)
    /\ Member(json_dumps(result(_state["m5"])), "full_text") = Some(<<>>)
    /\ Member(json_dumps(result(_state["m5"])), "separator") = Some(FALSE)
    /\ "urgent" \notin ResultKeys(result(_state["m5"]))

(***************************************************************************)
(* C18: a click event addressed to a polling block runs the block's fetch  *)
(* step inside the dispatch, wherever the block's loop is: the dispatch    *)
(* replaces the snapshot of that block, and of no other, with a freshly    *)
(* fetched one and leaves the loop task where it was (its cadence goes     *)
(* on); the out-of-band line written after the dispatch shows the block    *)
(* refreshed.                                                              *)
(***************************************************************************)
C18_ClickRefreshes ==
    [][/\ (IsClick(last') /\ last'.exc = None) =>
            LET m == last'.mods[1] IN
            /\ _get_module_from_key(last'.ev[1].name, last'.ev[1].instance) = Some(m)
            /\ _state' = [_state EXCEPT ![m] = _state'[m]]
            /\ json_dumps(result(_state'[m])) \in Refreshed(m)
            /\ pc' = [pc EXCEPT ![CLICK_TASK] = "write"]
            /\ stack' = <<Frame("click", Some(m))>>
       /\ (stack # <<>> /\ Top.site = "click" /\ last'.op = "flush") =>
            /\ out' = Append(out, [kind |-> "line", site |-> "click", blocks |-> Top.output])
            /\ Top.by[1] \in Registered
            /\ Len(Top.output) = Len(modules)
            /\ Top.output[PlaceOf(Top.by[1])] \in Refreshed(Top.by[1])
            /\ pc'[Top.by[1]] = pc[Top.by[1]]
      ]_vars

\* A tick line shows a block that has not fetched yet; the line written after
\* a click shows it refreshed, and its loop is still running.
C18_Witness ==
    /\ last.op = "flush"
    /\ pc[CLICK_TASK] = "delim"
    /\ Len(out) = 4
    /\ out[3].site = "tick" /\ out[4].site = "click"
    /\ \E m \in Registered :
        /\ pc[m] = "loop"
        /\ Len(out[3].blocks) = Len(modules)
        /\ out[3].blocks[PlaceOf(m)] \notin Refreshed(m)
        /\ out[4].blocks[PlaceOf(m)] \in Refreshed(m)

(***************************************************************************)
(* C19: no partially written snapshot is visible.  Every block object that *)
(* a write serializes, tick or out-of-band, is the whole snapshot that one *)
(* update call of that block produced (the one at construction, one of a   *)
(* fetch, or the one of the loop's failure), and it is the snapshot the    *)
(* block holds when the write reads it, the latest update winning.         *)
(***************************************************************************)
\* The snapshots the update calls made on block m can produce.
UpdatesOf(m) ==
    {update(m, <<>>, None)}
    \cup {update(m, <<v>>, None) : v \in Values}
    \cup {update(m, ExceptionText(m, e), Some(TRUE)) : e \in Errors}

SnapshotsOf(m) == {json_dumps(result(u)) : u \in UpdatesOf(m)}

\* The frames both states have, below the activation a step pushed or popped.
Below == 1..(IF Len(stack') < Len(stack) THEN Len(stack') ELSE Len(stack))

C19_NoPartialSnapshot ==
    [][/\ \A m \in Mods : _state'[m] # _state[m] => _state'[m] \in UpdatesOf(m)
       /\ last'.op = "write_result" =>
            LET m == ModuleValues[Len(Top.output) + 1] IN
            /\ Top'.output = Append(Top.output, json_dumps(result(_state[m])))
            /\ json_dumps(result(_state[m])) \in SnapshotsOf(m)
            /\ \A f \in 1..(Len(stack) - 1) : stack'[f] = stack[f]
            /\ out' = out
       /\ last'.op # "write_result" =>
            /\ \A f \in Below : stack'[f].output = stack[f].output
            /\ \/ out' = out
               \/ /\ last'.op = "flush"
                  /\ out' = Append(out, [kind |-> "line", site |-> Top.site,
                                         blocks |-> Top.output])
               \/ last'.op = "start" /\ out' = out \o <<HeaderLine, OpenLine>>
      ]_vars

\* A line that shows the first block with the diagnostic of its failed loop
\* and the second, whose loop failed too, with the data a later dispatch
\* fetched: the latest update wins.
C19_Witness ==
    /\ last.op = "flush"
    /\ Len(modules) = 2
    /\ \E i \in TickLines :
        /\ Len(out[i].blocks) = 2
        /\ out[i].blocks[1] =
                json_dumps(result(update(ModuleValues[1],
                                         ExceptionText(ModuleValues[1], "boom"), Some(TRUE))))
        /\ out[i].blocks[2] \in Refreshed(ModuleValues[2])
    /\ pc[ModuleValues[2]] = "done"

(***************************************************************************)
(* C20: round trip between output and input.  A click event that carries   *)
(* the name and the instance members of a serialized block object, the     *)
(* instance absent when the object has none, resolves to the registry      *)
(* entry of the block that produced the object; this holds for the         *)
(* snapshot of every registered block and for every block object of every  *)
(* line written.                                                           *)
(***************************************************************************)
\* The click event i3bar sends for a serialized block object.
EventFor(obj) == [ok |-> TRUE, name |-> Member(obj, "name"), instance |-> Member(obj, "instance")]

Resolves(obj, m) ==
    _get_module_from_key(EventFor(obj).name, EventFor(obj).instance) = Some(m)

C20_RoundTrip ==
    /\ \A m \in Registered : Resolves(json_dumps(result(_state[m])), m)
    /\ \A i \in TickLines : \A j \in 1..Len(out[i].blocks) :
            Resolves(out[i].blocks[j], ModuleValues[j])

\* A line of three blocks: one without an instance member, one whose name is
\* its class name, one with an instance.
C20_Witness ==
    /\ last.op = "flush"
    /\ Registered = {"m1", "m2", "m4"}
    /\ \E i \in TickLines :
        /\ Len(out[i].blocks) = 3
        /\ \E j \in 1..3 :
            /\ ModuleValues[j] = "m2"
            /\ Member(out[i].blocks[j], "instance") = None
            /\ EventFor(out[i].blocks[j]).instance = None
            /\ Resolves(out[i].blocks[j], "m2")

(***************************************************************************)
(* C21: end to end, under the event loop with a run timeout of one tick    *)
(* interval.  What is written is always a beginning of: the version header *)
(* line, the array-open line, one periodic line; once start has returned   *)
(* all three are there and nothing else.  The periodic line holds the      *)
(* snapshot of every registered block as constructed, in registry order,   *)
(* and its text ends with "]", a comma and a newline.  No second line is   *)
(* written before start returns.                                           *)
(***************************************************************************)
Punct(c) == [kind |-> "punct", ch |-> c]

RECURSIVE join(_)
join(output) ==
    IF Len(output) <= 1 THEN output
    ELSE <<output[1], Punct(",")>> \o join(Tail(output))

\* The text sys.stdout.write is given for a line: start writes the header and
\* "[\n", write_result writes "[" + ",".join(output) + "],\n".
LineText(l) ==
    CASE l.kind = "header" -> <<Punct("{\"version\": 1, \"click_events\": true}"), Punct("\n")>>
      [] l.kind = "open" -> <<Punct("["), Punct("\n")>>
      [] OTHER -> <<Punct("[")>> \o join(l.blocks) \o <<Punct("]"), Punct(","), Punct("\n")>>

EndsWithComma(text) ==
    /\ Len(text) >= 3
    /\ text[Len(text) - 2].kind = "punct" /\ text[Len(text) - 2].ch = "]"
    /\ text[Len(text) - 1].kind = "punct" /\ text[Len(text) - 1].ch = ","
    /\ text[Len(text)].kind = "punct" /\ text[Len(text)].ch = "\n"

AsConstructed == [i \in 1..Len(modules) |-> json_dumps(result(update(modules[i].mod, <<>>, None)))]

C21_EndToEnd ==
    /\ Len(out) <= 3
    /\ Len(out) >= 1 => out[1] = HeaderLine
    /\ Len(out) >= 2 => out[2] = OpenLine
    /\ Len(out) >= 3 =>
            /\ out[3].kind = "line"
            /\ out[3].site = "tick"
            /\ out[3].blocks = AsConstructed
            /\ EndsWithComma(LineText(out[3]))
    /\ phase = "stopped" => Len(out) = 3

\* One block is registered, start has returned on the timeout and the only
\* periodic line holds that block.
C21_Witness ==
    /\ phase = "stopped"
    /\ last.op = "_clean_up"
    /\ Len(modules) = 1
    /\ Len(out) = 3
    /\ Len(out[3].blocks) = 1
    /\ BlockIdentity(out[3].blocks[1]) = ModuleIdentity(modules[1].mod)

(***************************************************************************)
(* C24: a signal id has one dispatcher at a time, the one installed by the *)
(* most recent registration that named the id.  A successful registration  *)
(* makes its block the dispatcher of exactly the ids it names, no other    *)
(* step changes a dispatcher, and the block it installs was not registered *)
(* before, so a block that was replaced never becomes the dispatcher       *)
(* again.  A delivery of the id invokes the handler of the current         *)
(* dispatcher's block only: no other block's snapshot changes.             *)
(***************************************************************************)
NamesId(signals, s) == \E i \in 1..Len(signals) : signals[i] = s

C24_LatestRegistrationDispatches ==
    /\ [][\A s \in Signums :
            IF IsRegister(last') /\ last'.exc = None /\ NamesId(last'.ev[1].signals, s)
            THEN /\ handlers'[s] = Some(last'.mods[1])
                 /\ last'.mods[1] \notin Registered
                 /\ last'.mods[1] \in Registered'
            ELSE handlers'[s] = handlers[s]]_vars
    /\ [][last'.op = "_handler" =>
            /\ handlers[last'.ev[1].signum] # None
            /\ last'.mods = handlers'[last'.ev[1].signum]
            /\ \A m \in AllMods : <<m>> # last'.mods => _state'[m] = _state[m]]_vars

\* Two blocks were registered before the runner started, both naming SIGUSR1;
\* the first one's handler ran while it was the dispatcher, and the delivery
\* just made invoked the second one.
C24_Witness ==
    /\ phase = "setup"
    /\ Len(modules) = 2
    /\ last.op = "_handler"
    /\ last.exc = None
    /\ last.mods = <<modules[2].mod>>
    /\ handlers["SIGUSR1"] = Some(modules[2].mod)
    /\ _state[modules[1].mod]["full_text"] = Some(<<"v1">>)
    /\ _state[modules[2].mod]["full_text"] = Some(<<"v1">>)

(***************************************************************************)
(* C23: the identity of a block is the pair (name, instance).  A           *)
(* registration fails exactly when a block with the same pair is already   *)
(* registered, so two blocks whose pairs differ (an instance absent, empty *)
(* or "none", a name or instance holding "__") both register; and looking  *)
(* up the pair a click event carries never yields a block with another     *)
(* pair.                                                                   *)
(***************************************************************************)
SamePair(m, n) == ModuleIdentity(m) = ModuleIdentity(n)

C23_IdentityIsThePair ==
    /\ [][IsRegister(last') =>
            (last'.exc # None <=> \E n \in Registered : SamePair(n, last'.mods[1]))]_vars
    /\ [](\A m \in AllMods :
            LET hit == _get_module_from_key(Some(ModuleName(m)), ModuleInstance(m))
            IN hit # None => SamePair(hit[1], m))

(***************************************************************************)
(* C25: in the audio volume block, a step that resolves the sink index     *)
(* without failing the non-empty assertion leaves in sink_index the index  *)
(* of the first sink named like the server's default sink or, when no sink *)
(* has that name, the index of the first sink of the list; either way the  *)
(* index of a sink that is in the list.                                    *)
(***************************************************************************)
ResolvesSink(r) ==
    /\ r.op \in {"PulseAudioModule.__init__", "_handle_event"}
    /\ r.ev = Some("server")
    /\ r.exc # Some("AssertionError")

C25_ResolvedSinkIsInList ==
    [][ResolvesSink(last') =>
        LET l == pulse.server.sink_list
            named == {i \in 1..Len(l) : l[i].name = pulse.server.default_sink_name}
        IN /\ Len(l) > 0
           /\ pulse'.sink_index # None
           /\ \E i \in 1..Len(l) : l[i].index = pulse'.sink_index[1]
           /\ pulse'.sink_index[1] =
                IF named # {} THEN l[CHOOSE i \in named : \A j \in named : i <= j].index
                ELSE l[1].index]_vars

(***************************************************************************)
(* C26: in the aio_i3status runtime every constructed module has a name    *)
(* that format() carries: the name passed at construction when one is      *)
(* passed, the class name otherwise.  So format() never fails, the writer  *)
(* task never ends with an exception, and every line written once the      *)
(* runner has started holds one object per registered module, each with    *)
(* its module's name.                                                      *)
(***************************************************************************)
AioName(m) ==
    IF Truthy(AioCtorArgs[m].name) THEN AioCtorArgs[m].name[1] ELSE AioCtorArgs[m].cls

C26_EveryModuleSerializes ==
    /\ \A m \in AioMods :
          aio.objs[m] # None =>
            /\ format(aio.objs[m][1]).exc = None
            /\ Member(json_dumps(format(aio.objs[m][1]).dict), "name") = Some(Some(AioName(m)))
    /\ aio.writer # "failed"
    /\ \A i \in 1..Len(aio.out) :
          aio.out[i].kind = "line" =>
            /\ Len(aio.out[i].blocks) = Len(aio.modules)
            /\ \A j \in 1..Len(aio.modules) :
                  Member(aio.out[i].blocks[j], "name") = Some(Some(AioName(aio.modules[j])))

(***************************************************************************)
(* C22: the caffeine block is a two-state toggle.  After run its           *)
(* full_text is CAFFEINE OFF when the display's power management is        *)
(* enabled and CAFFEINE ON when it is disabled.  A click while it shows    *)
(* OFF calls dpms_disable once and set_screen_saver once, with timeout 0   *)
(* and interval 0, and nothing else; a click while it shows ON calls       *)
(* dpms_enable once and set_screen_saver once, with timeout -1 and         *)
(* interval -1, and nothing else.                                          *)
(***************************************************************************)
Shown(block) == Member(json_dumps(result(block)), "full_text")

CallsOf(calls, name) == {i \in 1..Len(calls) : calls[i].name = name}

Issued(calls, toggle, t) ==
    /\ Len(calls) = 2
    /\ Cardinality(CallsOf(calls, toggle)) = 1
    /\ Cardinality(CallsOf(calls, "set_screen_saver")) = 1
    /\ \A i \in CallsOf(calls, "set_screen_saver") :
            calls[i].timeout = Some(t) /\ calls[i].interval = Some(t)

C22_CaffeineToggle ==
    /\ [][last'.op = "CaffeineBlock.run" =>
            Shown(x11'.block) = Some(IF x11.state = 1 THEN <<"CAFFEINE OFF">> ELSE <<"CAFFEINE ON">>)]_vars
    /\ [][last'.op = "CaffeineBlock.click_handler" =>
            LET added == SubSeq(x11'.calls, Len(x11.calls) + 1, Len(x11'.calls)) IN
            /\ Shown(x11.block) \in {Some(<<"CAFFEINE OFF">>), Some(<<"CAFFEINE ON">>)}
            /\ Shown(x11.block) = Some(<<"CAFFEINE OFF">>) => Issued(added, "dpms_disable", 0)
            /\ Shown(x11.block) = Some(<<"CAFFEINE ON">>) => Issued(added, "dpms_enable", -1)]_vars

\* The block shows ON and was just clicked; the display has recorded that
\* click and, before it, a click made while the block showed OFF.
C22_Witness ==
    /\ last.op = "CaffeineBlock.click_handler"
    /\ Shown(x11.block) = Some(<<"CAFFEINE ON">>)
    /\ Len(x11.calls) = 4
    /\ x11.calls[1].name = "dpms_disable"
    /\ x11.calls[2].timeout = Some(0)
    /\ x11.calls[3].name = "dpms_enable"
    /\ x11.calls[4].interval = Some(-1)

====
